---- MODULE Spec2Model ----
(***************************************************************************)
(* The identifier cache of scaleway-cli (ScalewayCache): four collections  *)
(* of identifier -> name, a Modified flag, one mutex, and a JSON file that *)
(* Save replaces through a temporary file and a rename.                    *)
(*                                                                         *)
(* A Go string is modelled as a tuple of one-character strings, so that    *)
(* prefixes, the name regexp and the JSON encoding work on characters.     *)
(* The character "xFF" stands for a byte that is not valid UTF-8 and       *)
(* "uFFFD" for the Unicode replacement character.                          *)
(***************************************************************************)
EXTENDS Integers, Sequences, FiniteSets, TLC

\* ------------------------------------------------------------------ bounds
\* Number of goroutines that use the cache concurrently.
NTasks == 2
\* Number of calls the goroutines start altogether.
MaxOps == 3
\* Number of calls of the process that uses its cache from one goroutine.
MaxSeqOps == 2
\* Number of calls of the process that looks needles up.
MaxLookUpOps == 2
\* Number of mutations each of two processes makes before it saves.
MaxProcOps == 1
\* Number of calls the goroutines start altogether under fair scheduling.
MaxFairOps == 2

Tasks == 1..NTasks

\* --------------------------------------------------------------- the inputs
\* Identifiers, names and needles the callers pass in.
Identifiers == {<<"a">>, <<"a", "b">>}
Names == {<<"A">>, <<"xFF">>}
Needles == {<<"a">>, <<"a", "b">>}

\* The four collections, in the order LookUpIdentifiers visits them.
Categories == <<"Servers", "Images", "Snapshots", "Bootscripts">>
CategorySet == {"Servers", "Images", "Snapshots", "Bootscripts"}

IdentifierServer == 0
IdentifierImage == 1
IdentifierSnapshot == 2
IdentifierBootscript == 3

\* The type key LookUpIdentifiers attaches to the results of a collection.
TypeOf(cat) ==
    CASE cat = "Servers" -> IdentifierServer
      [] cat = "Images" -> IdentifierImage
      [] cat = "Snapshots" -> IdentifierSnapshot
      [] cat = "Bootscripts" -> IdentifierBootscript

\* ------------------------------------------------------------------ strings
\* strings.HasPrefix
HasPrefix(s, prefix) ==
    /\ Len(prefix) <= Len(s)
    /\ SubSeq(s, 1, Len(prefix)) = prefix

\* Simple case folding of the (?i) flag.
Fold(ch) ==
    CASE ch = "A" -> "a"
      [] ch = "B" -> "b"
      [] ch = "N" -> "n"
      [] OTHER -> ch

\* regexp `^user/` replaced by "": the needle without a leading "user/".
StripUser(needle) ==
    IF HasPrefix(needle, <<"u", "s", "e", "r", "/">>)
    THEN SubSeq(needle, 6, Len(needle))
    ELSE needle

\* regexp `[_-]` replaced by ".*": the pattern, one element per needle
\* character, the element ".*" being the wildcard.
NameRegex(needle) ==
    [i \in 1..Len(needle) |-> IF needle[i] \in {"_", "-"} THEN ".*" ELSE needle[i]]

\* regexp.MustCompile panics on a pattern that is not a regular expression.
\* Of the characters used here "(" makes one: a group that is never closed.
Compiles(re) == \A i \in 1..Len(re) : re[i] /= "("

\* The pattern from element i on matches name starting at position j.
\* ".*" takes any run of characters other than a newline, and a "." of
\* the needle is the regexp's any-character, which takes one of them.
RECURSIVE MatchHere(_, _, _, _)
MatchHere(re, name, i, j) ==
    IF i > Len(re) THEN TRUE
    ELSE IF re[i] = ".*"
         THEN \E k \in j..(Len(name) + 1) :
                  /\ \A x \in j..(k - 1) : name[x] /= "\n"
                  /\ MatchHere(re, name, i + 1, k)
         ELSE IF re[i] = "."
         THEN /\ j <= Len(name)
              /\ name[j] /= "\n"
              /\ MatchHere(re, name, i + 1, j + 1)
         ELSE /\ j <= Len(name)
              /\ Fold(name[j]) = Fold(re[i])
              /\ MatchHere(re, name, i + 1, j + 1)

\* nameRegex.MatchString(name): an unanchored search.
MatchString(re, name) ==
    \E j \in 1..(Len(name) + 1) : MatchHere(re, name, 1, j)

\* Mutant: every lookup drops a leading "user/".
EffectiveNeedleAll(cat, needle) == StripUser(needle)

\* The needle a collection's lookup works with: images and snapshots drop
\* a leading "user/".
EffectiveNeedle(cat, needle) ==
    IF cat \in {"Images", "Snapshots"} THEN StripUser(needle) ELSE needle

\* The identifiers of a collection m that LookUp<cat> selects.
LookUpSet(cat, m, needle) ==
    LET n == EffectiveNeedle(cat, needle)
    IN {identifier \in DOMAIN m :
            HasPrefix(identifier, n) \/ MatchString(NameRegex(n), m[identifier])}

\* Go's map iteration order is unspecified: every order of the set.
Orderings(S) ==
    {s \in [1..Cardinality(S) -> S] : \A i, j \in 1..Cardinality(S) : s[i] = s[j] => i = j}

\* ---------------------------------------------------------------- the cache
EmptyMap == << >>

\* c.X[identifier] = name
MapSet(m, identifier, name) ==
    [k \in DOMAIN m \cup {identifier} |-> IF k = identifier THEN name ELSE m[k]]

\* Mutant: delete removes the smallest key, not the given one.
MapDeleteFirst(m, identifier) ==
    [k \in DOMAIN m \ {<<"a">>} |-> m[k]]

\* delete(c.X, identifier)
MapDelete(m, identifier) ==
    [k \in DOMAIN m \ {identifier} |-> m[k]]

\* The four collections of a cache.
Collections(cache) ==
    [cat \in CategorySet |-> cache[cat]]

\* ------------------------------------------------------------------- JSON
\* encoding/json writes a string coerced to valid UTF-8: every invalid byte
\* becomes the replacement character.
EncodeString(s) ==
    [i \in 1..Len(s) |-> IF s[i] = "xFF" THEN "uFFFD" ELSE s[i]]

\* Byte order of the characters, for the sorted keys of an object.
Rank(ch) ==
    CASE ch = "/" -> 1
      [] ch = "A" -> 2
      [] ch = "a" -> 3
      [] ch = "b" -> 4
      [] ch = "uFFFD" -> 5
      [] ch = "xFF" -> 6
      [] OTHER -> 0

RECURSIVE StrLess(_, _)
StrLess(s, t) ==
    IF Len(t) = 0 THEN FALSE
    ELSE IF Len(s) = 0 THEN TRUE
    ELSE IF Rank(Head(s)) /= Rank(Head(t)) THEN Rank(Head(s)) < Rank(Head(t))
    ELSE StrLess(Tail(s), Tail(t))

\* A map written as a JSON object and read back into a map: the keys are
\* written in sorted order, each coerced; of two keys that coerce to the
\* same string the decoder keeps the one written last.
EncodeMap(m) ==
    LET keys == {EncodeString(k) : k \in DOMAIN m}
        last(e) == CHOOSE k \in DOMAIN m :
                       /\ EncodeString(k) = e
                       /\ \A k2 \in DOMAIN m :
                              EncodeString(k2) = e /\ k2 /= k => StrLess(k2, k)
    IN [e \in keys |-> EncodeString(m[last(e)])]

\* A JSON document: each field is << >> (null or absent) or <<m>>.
Null == << >>
NullDoc == [images |-> Null, snapshots |-> Null, bootscripts |-> Null, servers |-> Null]

\* Mutant: the snapshots written under the images key as well.
EncodeSwapped(cache) ==
    [images |-> <<EncodeMap(cache.Snapshots)>>,
     snapshots |-> <<EncodeMap(cache.Snapshots)>>,
     bootscripts |-> <<EncodeMap(cache.Bootscripts)>>,
     servers |-> <<EncodeMap(cache.Servers)>>]

\* A collection as a field of the document: a nil map is written as null.
EncodeField(cache, cat) ==
    IF cat \in cache.Nil THEN Null ELSE <<EncodeMap(cache[cat])>>

\* encoder.Encode(*c): Path, Modified and Lock are not serialized.
Encode(cache) ==
    [images |-> EncodeField(cache, "Images"),
     snapshots |-> EncodeField(cache, "Snapshots"),
     bootscripts |-> EncodeField(cache, "Bootscripts"),
     servers |-> EncodeField(cache, "Servers")]

\* A file: absent, empty, a complete JSON document, or a part of one.
NoFile == [kind |-> "absent", doc |-> NullDoc]
EmptyFile == [kind |-> "empty", doc |-> NullDoc]
JsonFile(doc) == [kind |-> "json", doc |-> doc]
PartialFile == [kind |-> "partial", doc |-> NullDoc]
\* A file that os.Stat finds and ioutil.ReadFile cannot read, and a path at
\* which os.Stat fails with an error other than "does not exist".
UnreadableFile == [kind |-> "unreadable", doc |-> NullDoc]
NoAccessFile == [kind |-> "noaccess", doc |-> NullDoc]

\* A decoded field, nil replaced by an empty map.
Repair(field) == IF field = Null THEN EmptyMap ELSE field[1]

\* The field of a document that holds a collection.
DocField(doc, cat) ==
    CASE cat = "Images" -> doc.images
      [] cat = "Snapshots" -> doc.snapshots
      [] cat = "Bootscripts" -> doc.bootscripts
      [] cat = "Servers" -> doc.servers

\* json.Unmarshal leaves the map of a null or absent field nil.
NilFields(doc) == {cat \in CategorySet : DocField(doc, cat) = Null}

\* Mutant: the nil check passes over the bootscripts.
MakeNilButBootscripts(nil) == nil \cap {"Bootscripts"}

\* The four nil checks: every nil map is replaced by make(map), so none of
\* the maps nil after Unmarshal is nil any longer.
MakeNil(nil) == {}

\* A cache value: the maps, with Nil the set of the maps that are nil (a nil
\* map reads as an empty one).
NewCache(images, snapshots, bootscripts, servers) ==
    [Images |-> images, Snapshots |-> snapshots, Bootscripts |-> bootscripts,
     Servers |-> servers, Nil |-> {}, Path |-> << >>, Modified |-> FALSE,
     Lock |-> FALSE]

\* filepath.Join
Join(dir, file) == <<dir, file>>

\* The cache path: under $HOME, else under %USERPROFILE%, else under /tmp.
\* An unset variable reads as "".
CachePath(home, userprofile) ==
    LET homeDir == IF home /= "" THEN home
                   ELSE IF userprofile /= "" THEN userprofile
                   ELSE "/tmp"
    IN Join(homeDir, ".scw-cache.db")

\* The nil *ScalewayCache: written as a cache value that NewScalewayCache
\* never builds, all four of its maps being nil.
NilCache ==
    [NewCache(EmptyMap, EmptyMap, EmptyMap, EmptyMap) EXCEPT !.Nil = CategorySet]

\* Mutant: an error swallowed, an empty cache returned in its place.
FailedEmpty(err) ==
    [err |-> "nil", cache |-> NewCache(EmptyMap, EmptyMap, EmptyMap, EmptyMap)]

\* return nil, err
Failed(err) == [err |-> err, cache |-> NilCache]

\* Mutant: a missing file reported as an error.
AbsentIsError(path) == [err |-> "stat", cache |-> NilCache]

\* os.Stat says the file does not exist: an empty cache on that path.
Absent(path) ==
    [err |-> "nil",
     cache |-> [NewCache(EmptyMap, EmptyMap, EmptyMap, EmptyMap) EXCEPT !.Path = path]]

\* NewScalewayCache in the environment (home, userprofile), f being the
\* file at the cache path.
NewScalewayCache(home, userprofile, f) ==
    LET path == CachePath(home, userprofile)
    IN IF f.kind = "absent"
       THEN Absent(path)
       ELSE IF f.kind = "noaccess"
       THEN Failed("stat")
       ELSE IF f.kind = "unreadable"
       THEN Failed("read")
       ELSE IF f.kind = "json"
       THEN [err |-> "nil",
             cache |-> [NewCache(Repair(f.doc.images), Repair(f.doc.snapshots),
                                 Repair(f.doc.bootscripts), Repair(f.doc.servers))
                            EXCEPT !.Path = path,
                                   !.Nil = MakeNil(NilFields(f.doc))]]
       ELSE Failed("decode")

\* The cache files the process may find when it starts.
InitialFiles ==
    {NoFile,
     JsonFile([NullDoc EXCEPT !.servers = <<(<<"a">> :> <<"A">>) @@ (<<"a", "b">> :> <<"A">>)>>]),
     JsonFile([images |-> <<(<<"a">> :> <<"A">>)>>, snapshots |-> <<EmptyMap>>,
               bootscripts |-> <<EmptyMap>>, servers |-> <<EmptyMap>>])}

\* ------------------------------------------------------------------- state
VARIABLES
    rmi,      \* the rmi command: its arguments and how far runRmi has come (SpecRmi only)
    procs,    \* two processes that share the cache file (used by SpecTwo only)
    main,     \* the process: its environment and how NewScalewayCache ended
    c,        \* the ScalewayCache of the process
    disk,     \* the file at c.Path
    tmp,      \* tmp[t]: the temporary file the Save running in task t created
    pc,       \* pc[t]: where task t is in the call it runs
    local,    \* local[t]: the arguments, locals and results of that call
    nops,     \* calls started so far
    crashed,  \* the process was killed
    loaded,   \* the collections as NewScalewayCache returned them
    before,   \* before[t]: the file and cache when task t's Save took the lock
    seen      \* seen[t]: the collections the cache held during t's LookUpIdentifiers

vars == <<rmi, procs, main, c, disk, tmp, pc, local, nops, crashed, loaded, before, seen>>

NoLocal ==
    [op |-> "", cat |-> "", identifier |-> << >>, name |-> << >>, needle |-> << >>,
     res |-> << >>, result |-> << >>, stage |-> 0, nb |-> 0, err |-> "nil"]

NoBefore == [disk |-> NoFile, coll |-> Collections(NewCache(EmptyMap, EmptyMap, EmptyMap, EmptyMap)), Modified |-> FALSE, taken |-> FALSE]

\* The process with its cache loaded, the home directory taken from $HOME.
Loaded == [home |-> "/home/u", userprofile |-> "", pc |-> "loaded", err |-> "nil"]

\* A process that has not called NewScalewayCache yet.
NoProc == [pc |-> "start", c |-> NilCache, tmp |-> NoFile, nops |-> 0, err |-> "nil"]

\* No second process: the file is this process's alone.
NoProcs == [of |-> [p \in {1, 2} |-> NoProc], first |-> NoFile, last |-> 0]

\* The rmi command is not running.
NoRmi ==
    [args |-> << >>, rmiHelp |-> FALSE, pc |-> "none", i |-> 1, image |-> << >>,
     hasError |-> FALSE, usage |-> << >>, attempts |-> << >>, stdout |-> << >>,
     status |-> "running"]

Init ==
    /\ procs = NoProcs
    /\ rmi = NoRmi
    /\ main = Loaded
    /\ disk \in InitialFiles
    /\ c = NewScalewayCache(main.home, main.userprofile, disk).cache
    /\ loaded = Collections(c)
    /\ tmp = [t \in Tasks |-> NoFile]
    /\ pc = [t \in Tasks |-> "idle"]
    /\ local = [t \in Tasks |-> NoLocal]
    /\ nops = 0
    /\ crashed = FALSE
    /\ before = [t \in Tasks |-> NoBefore]
    /\ seen = [t \in Tasks |-> {}]

\* ------------------------------------------------------------------ locking
\* Mutant: Lock() does not wait.
LockFreeAlways == TRUE

\* c.Lock.Lock() returns only when the mutex is free.
LockFree == ~c.Lock

\* A caller may start a new call.
CanCall(t) ==
    /\ main.pc = "loaded"
    /\ ~crashed
    /\ pc[t] = "idle"
    /\ nops < MaxOps

\* The tasks inside LookUpIdentifiers see every change of the collections.
Observe(newc) ==
    [t \in Tasks |-> IF local[t].op = "LookUpIdentifiers"
                     THEN seen[t] \cup {Collections(newc)}
                     ELSE seen[t]]

\* Mutant: every result tagged as a server.
TaggedServer(res, cat) ==
    [i \in 1..Len(res) |-> [Identifier |-> res[i], Type |-> IdentifierServer]]

\* The results of a category lookup, tagged as LookUpIdentifiers appends them.
Tagged(res, cat) ==
    [i \in 1..Len(res) |-> [Identifier |-> res[i], Type |-> TypeOf(cat)]]

\* defer c.Lock.Unlock() and the return to the caller, which drops the
\* results and is free to make its next call. Inside LookUpIdentifiers the
\* results are tagged and appended, and the next collection follows.
\* Save's handle of its temporary file ends with the call: a file that a
\* failed Save left in the temporary directory is not followed further.
\* A panic of MustCompile unwinds through the deferred Unlock; nothing in
\* the cache recovers it, so it ends the process.
Unlock(t) ==
    /\ ~crashed
    /\ pc[t] = "unlock"
    /\ c' = [c EXCEPT !.Lock = FALSE]
    /\ IF local[t].err = "panic"
       THEN /\ local' = local
            /\ pc' = [pc EXCEPT ![t] = "panic"]
       ELSE IF local[t].op = "LookUpIdentifiers"
       THEN /\ local' = [local EXCEPT
                  ![t].result = @ \o Tagged(local[t].res, local[t].cat),
                  ![t].res = << >>,
                  ![t].cat = "",
                  ![t].stage = @ + 1]
            /\ pc' = [pc EXCEPT ![t] = "LookUpIdentifiers"]
       ELSE /\ local' = [local EXCEPT ![t] = NoLocal]
            /\ pc' = [pc EXCEPT ![t] = "idle"]
    /\ tmp' = [tmp EXCEPT ![t] = NoFile]
    /\ before' = [before EXCEPT ![t] = NoBefore]
    /\ crashed' = (local[t].err = "panic")
    /\ UNCHANGED <<rmi, procs, main, disk, nops, loaded, seen>>

\* The same in a goroutine that makes one call and ends: it keeps what it
\* called with.
UnlockOnce(t) ==
    /\ ~crashed
    /\ pc[t] = "unlock"
    /\ c' = [c EXCEPT !.Lock = FALSE]
    /\ pc' = [pc EXCEPT ![t] = "done"]
    /\ UNCHANGED <<rmi, procs, main, disk, tmp, local, nops, crashed, loaded, before, seen>>

\* ----------------------------------------------------------------- mutators
\* Insert<cat>(identifier, name): the call and c.Lock.Lock().
InsertLock(t, cat, identifier, name) ==
    /\ CanCall(t)
    /\ LockFree
    /\ c' = [c EXCEPT !.Lock = TRUE]
    /\ pc' = [pc EXCEPT ![t] = "Insert"]
    /\ local' = [local EXCEPT ![t] = [NoLocal EXCEPT !.op = "Insert", !.cat = cat,
                                       !.identifier = identifier, !.name = name]]
    /\ nops' = nops + 1
    /\ UNCHANGED <<rmi, procs, main, disk, tmp, crashed, loaded, before, seen>>

\* Mutant: "&&" in the place of "||".
InsertChangesAnd(m, identifier, name) ==
    identifier \in DOMAIN m /\ m[identifier] /= name

\* Mutant: the test left out, every Insert counts as a change.
InsertChangesAlways(m, identifier, name) == TRUE

\* if !exists || currentName != name
InsertChanges(m, identifier, name) ==
    identifier \notin DOMAIN m \/ m[identifier] /= name

\* The cache after the body of Insert<cat>(identifier, name).
Inserted(cache, cat, identifier, name) ==
    IF InsertChanges(cache[cat], identifier, name)
    THEN [cache EXCEPT ![cat] = MapSet(cache[cat], identifier, name), !.Modified = TRUE]
    ELSE cache

\* The body of Insert<cat>.
InsertBody(t) ==
    /\ ~crashed
    /\ pc[t] = "Insert"
    /\ c' = Inserted(c, local[t].cat, local[t].identifier, local[t].name)
    /\ pc' = [pc EXCEPT ![t] = "unlock"]
    /\ seen' = Observe(c')
    /\ UNCHANGED <<rmi, procs, main, disk, tmp, local, nops, crashed, loaded, before>>

\* Remove<cat>(identifier): the call and c.Lock.Lock().
RemoveLock(t, cat, identifier) ==
    /\ CanCall(t)
    /\ LockFree
    /\ c' = [c EXCEPT !.Lock = TRUE]
    /\ pc' = [pc EXCEPT ![t] = "Remove"]
    /\ local' = [local EXCEPT ![t] = [NoLocal EXCEPT !.op = "Remove", !.cat = cat,
                                       !.identifier = identifier]]
    /\ nops' = nops + 1
    /\ UNCHANGED <<rmi, procs, main, disk, tmp, crashed, loaded, before, seen>>

\* Mutant: Remove does not set Modified.
RemovedNoFlag(cache, cat, identifier) ==
    [cache EXCEPT ![cat] = MapDelete(cache[cat], identifier)]

\* The cache after the body of Remove<cat>(identifier).
Removed(cache, cat, identifier) ==
    [cache EXCEPT ![cat] = MapDelete(cache[cat], identifier), !.Modified = TRUE]

\* The body of Remove<cat>.
RemoveBody(t) ==
    /\ ~crashed
    /\ pc[t] = "Remove"
    /\ c' = Removed(c, local[t].cat, local[t].identifier)
    /\ pc' = [pc EXCEPT ![t] = "unlock"]
    /\ seen' = Observe(c')
    /\ UNCHANGED <<rmi, procs, main, disk, tmp, local, nops, crashed, loaded, before>>

\* Clear<cat>(): the call and c.Lock.Lock().
ClearLock(t, cat) ==
    /\ CanCall(t)
    /\ LockFree
    /\ c' = [c EXCEPT !.Lock = TRUE]
    /\ pc' = [pc EXCEPT ![t] = "Clear"]
    /\ local' = [local EXCEPT ![t] = [NoLocal EXCEPT !.op = "Clear", !.cat = cat]]
    /\ nops' = nops + 1
    /\ UNCHANGED <<rmi, procs, main, disk, tmp, crashed, loaded, before, seen>>

\* Mutant: every Clear empties the servers.
ClearedServers(cache, cat) ==
    [cache EXCEPT !["Servers"] = EmptyMap, !.Nil = @ \ {"Servers"}, !.Modified = TRUE]

\* The cache after the body of Clear<cat>(): a new, empty map.
Cleared(cache, cat) ==
    [cache EXCEPT ![cat] = EmptyMap, !.Nil = @ \ {cat}, !.Modified = TRUE]

\* The body of Clear<cat>.
ClearBody(t) ==
    /\ ~crashed
    /\ pc[t] = "Clear"
    /\ c' = Cleared(c, local[t].cat)
    /\ pc' = [pc EXCEPT ![t] = "unlock"]
    /\ seen' = Observe(c')
    /\ UNCHANGED <<rmi, procs, main, disk, tmp, local, nops, crashed, loaded, before>>

\* ------------------------------------------------------------------ lookups
\* LookUp<cat>(needle): the call and c.Lock.Lock(), from a caller or as the
\* next step of LookUpIdentifiers.
LookUpLock(t, cat, needle) ==
    /\ ~crashed
    /\ LockFree
    /\ \/ /\ CanCall(t)
          /\ local' = [local EXCEPT ![t] = [NoLocal EXCEPT !.op = "LookUp", !.cat = cat,
                                             !.needle = needle]]
          /\ nops' = nops + 1
       \/ /\ pc[t] = "LookUpIdentifiers"
          /\ local[t].stage <= 4
          /\ cat = Categories[local[t].stage]
          /\ needle = local[t].needle
          /\ local' = [local EXCEPT ![t].cat = cat]
          /\ nops' = nops
    /\ c' = [c EXCEPT !.Lock = TRUE]
    /\ pc' = [pc EXCEPT ![t] = "LookUp"]
    /\ UNCHANGED <<rmi, procs, main, disk, tmp, crashed, loaded, before, seen>>

\* Mutant: the loop over the map marks the cache modified.
RangedDirty(cache) == [cache EXCEPT !.Modified = TRUE]

\* for identifier, name := range c.X: the loop reads the map and assigns
\* to nothing of the cache.
Ranged(cache) == cache

\* The body of LookUp<cat>: regexp.MustCompile, which panics on a needle
\* that does not make a regular expression, then the matching identifiers
\* in iteration order.
LookUpBody(t) ==
    /\ ~crashed
    /\ pc[t] = "LookUp"
    /\ IF Compiles(NameRegex(EffectiveNeedle(local[t].cat, local[t].needle)))
       THEN \E res \in Orderings(LookUpSet(local[t].cat, c[local[t].cat], local[t].needle)) :
                local' = [local EXCEPT ![t].res = res]
       ELSE local' = [local EXCEPT ![t].err = "panic"]
    /\ c' = IF local'[t].err = "panic" THEN c ELSE Ranged(c)
    /\ pc' = [pc EXCEPT ![t] = "unlock"]
    /\ UNCHANGED <<rmi, procs, main, disk, tmp, nops, crashed, loaded, before, seen>>

\* GetNb<cat>(): the call and c.Lock.Lock().
GetNbLock(t, cat) ==
    /\ CanCall(t)
    /\ LockFree
    /\ c' = [c EXCEPT !.Lock = TRUE]
    /\ pc' = [pc EXCEPT ![t] = "GetNb"]
    /\ local' = [local EXCEPT ![t] = [NoLocal EXCEPT !.op = "GetNb", !.cat = cat]]
    /\ nops' = nops + 1
    /\ UNCHANGED <<rmi, procs, main, disk, tmp, crashed, loaded, before, seen>>

\* The body of GetNb<cat>: return len(c.X).
GetNbBody(t) ==
    /\ ~crashed
    /\ pc[t] = "GetNb"
    /\ local' = [local EXCEPT ![t].nb = Cardinality(DOMAIN c[local[t].cat])]
    /\ pc' = [pc EXCEPT ![t] = "unlock"]
    /\ UNCHANGED <<rmi, procs, main, c, disk, tmp, nops, crashed, loaded, before, seen>>

\* LookUpIdentifiers(needle): the call; it takes no lock itself.
LookUpIdentifiers(t, needle) ==
    /\ CanCall(t)
    /\ pc' = [pc EXCEPT ![t] = "LookUpIdentifiers"]
    /\ local' = [local EXCEPT ![t] = [NoLocal EXCEPT !.op = "LookUpIdentifiers",
                                       !.needle = needle, !.stage = 1]]
    /\ nops' = nops + 1
    /\ seen' = [seen EXCEPT ![t] = {Collections(c)}]
    /\ UNCHANGED <<rmi, procs, main, c, disk, tmp, crashed, loaded, before>>

\* LookUpIdentifiers has its result.
LookUpIdentifiersDone(t) ==
    /\ pc[t] = "LookUpIdentifiers"
    /\ local[t].stage = 5

\* return result
LookUpIdentifiersReturn(t) ==
    /\ ~crashed
    /\ LookUpIdentifiersDone(t)
    /\ pc' = [pc EXCEPT ![t] = "idle"]
    /\ local' = [local EXCEPT ![t] = NoLocal]
    /\ seen' = [seen EXCEPT ![t] = {}]
    /\ UNCHANGED <<rmi, procs, main, c, disk, tmp, nops, crashed, loaded, before>>

\* --------------------------------------------------------------------- Save
\* Save(): the call and c.Lock.Lock().
SaveLock(t) ==
    /\ CanCall(t)
    /\ LockFree
    /\ c' = [c EXCEPT !.Lock = TRUE]
    /\ pc' = [pc EXCEPT ![t] = "Save"]
    /\ local' = [local EXCEPT ![t] = [NoLocal EXCEPT !.op = "Save"]]
    /\ nops' = nops + 1
    /\ before' = [before EXCEPT ![t] = [disk |-> disk, coll |-> Collections(c),
                                         Modified |-> c.Modified, taken |-> TRUE]]
    /\ UNCHANGED <<rmi, procs, main, disk, tmp, crashed, loaded, seen>>

\* Mutant: Save writes whether modified or not.
SaveAlways == TRUE

\* if c.Modified
SaveMustWrite == c.Modified

\* Not modified: return nil.
SaveSkip(t) ==
    /\ ~crashed
    /\ pc[t] = "Save"
    /\ ~SaveMustWrite
    /\ pc' = [pc EXCEPT ![t] = "unlock"]
    /\ UNCHANGED <<rmi, procs, main, c, disk, tmp, local, nops, crashed, loaded, before, seen>>

\* ioutil.TempFile("", ""): a new empty file, or an error that Save returns.
SaveTempFile(t) ==
    /\ ~crashed
    /\ pc[t] = "Save"
    /\ SaveMustWrite
    /\ \/ /\ tmp' = [tmp EXCEPT ![t] = EmptyFile]
          /\ pc' = [pc EXCEPT ![t] = "Save_Encode"]
          /\ local' = local
       \/ /\ tmp' = tmp
          /\ pc' = [pc EXCEPT ![t] = "unlock"]
          /\ local' = [local EXCEPT ![t].err = "TempFile"]
    /\ UNCHANGED <<rmi, procs, main, c, disk, nops, crashed, loaded, before, seen>>

\* Mutant: the error of Encode is not checked, the rename follows.
SaveEncodeUnchecked(t) ==
    /\ ~crashed
    /\ pc[t] = "Save_Encode"
    /\ \/ tmp' = [tmp EXCEPT ![t] = JsonFile(Encode(c))]
       \/ tmp' = [tmp EXCEPT ![t] = PartialFile]
    /\ pc' = [pc EXCEPT ![t] = "Save_Rename"]
    /\ UNCHANGED <<rmi, procs, main, c, disk, local, nops, crashed, loaded, before, seen>>

\* encoder.Encode(*c) into the temporary file: the whole document, or an
\* error that Save returns, with a part of the document written.
SaveEncode(t) ==
    /\ ~crashed
    /\ pc[t] = "Save_Encode"
    /\ \/ /\ tmp' = [tmp EXCEPT ![t] = JsonFile(Encode(c))]
          /\ pc' = [pc EXCEPT ![t] = "Save_Rename"]
          /\ local' = local
       \/ /\ tmp' = [tmp EXCEPT ![t] = PartialFile]
          /\ pc' = [pc EXCEPT ![t] = "unlock"]
          /\ local' = [local EXCEPT ![t].err = "Encode"]
    /\ UNCHANGED <<rmi, procs, main, c, disk, nops, crashed, loaded, before, seen>>

\* Mutant: a rename that does not replace a file that is there.
RenamedUnlessThere(file, tmpfile) == IF file.kind = "absent" THEN tmpfile ELSE file

\* os.Rename(file.Name(), c.Path): the file at the path is the temporary
\* file from then on, whatever was there.
Renamed(file, tmpfile) == tmpfile

\* Mutant: the cache file is removed before the rename.
SaveRenameAfterRemove(t) ==
    /\ ~crashed
    /\ pc[t] = "Save_Rename"
    /\ \/ /\ disk' = tmp[t]
          /\ tmp' = [tmp EXCEPT ![t] = NoFile]
          /\ local' = local
       \/ /\ disk' = NoFile
          /\ tmp' = tmp
          /\ local' = [local EXCEPT ![t].err = "Rename"]
    /\ pc' = [pc EXCEPT ![t] = "unlock"]
    /\ UNCHANGED <<rmi, procs, main, c, nops, crashed, loaded, before, seen>>

\* Mutant: a successful Save resets Modified.
SaveRenameClears(t) ==
    /\ ~crashed
    /\ pc[t] = "Save_Rename"
    /\ \/ /\ disk' = tmp[t]
          /\ tmp' = [tmp EXCEPT ![t] = NoFile]
          /\ local' = local
          /\ c' = [c EXCEPT !.Modified = FALSE]
       \/ /\ disk' = disk
          /\ tmp' = tmp
          /\ local' = [local EXCEPT ![t].err = "Rename"]
          /\ c' = c
    /\ pc' = [pc EXCEPT ![t] = "unlock"]
    /\ UNCHANGED <<rmi, procs, main, nops, crashed, loaded, before, seen>>

\* return os.Rename(file.Name(), c.Path): the temporary file takes the place
\* of the cache file in one step, or nothing changes and Save returns the error.
SaveRename(t) ==
    /\ ~crashed
    /\ pc[t] = "Save_Rename"
    /\ \/ /\ disk' = Renamed(disk, tmp[t])
          /\ tmp' = [tmp EXCEPT ![t] = NoFile]
          /\ local' = local
       \/ /\ disk' = disk
          /\ tmp' = tmp
          /\ local' = [local EXCEPT ![t].err = "Rename"]
    /\ pc' = [pc EXCEPT ![t] = "unlock"]
    /\ UNCHANGED <<rmi, procs, main, c, nops, crashed, loaded, before, seen>>

\* Task t is inside Save, between Lock and the return.
InSave(t) == pc[t] \in {"Save", "Save_Encode", "Save_Rename"} \/ (pc[t] = "unlock" /\ local[t].op = "Save")

\* The process is killed while a Save runs: no task takes another step and
\* the files stay as they are; a kill during the write of the temporary file
\* may leave a part of the document in it.
Crash ==
    /\ ~crashed
    /\ \E t \in Tasks : InSave(t)
    /\ crashed' = TRUE
    /\ \/ tmp' = tmp
       \/ \E t \in Tasks : pc[t] = "Save_Encode" /\ tmp' = [tmp EXCEPT ![t] = PartialFile]
    /\ UNCHANGED <<rmi, procs, main, c, disk, pc, local, nops, loaded, before, seen>>

\* --------------------------------------------------------------------- Next
Next ==
    \/ \E t \in Tasks, cat \in CategorySet, identifier \in Identifiers, name \in Names :
           InsertLock(t, cat, identifier, name)
    \/ \E t \in Tasks : InsertBody(t)
    \/ \E t \in Tasks, cat \in CategorySet, identifier \in Identifiers :
           RemoveLock(t, cat, identifier)
    \/ \E t \in Tasks : RemoveBody(t)
    \/ \E t \in Tasks, cat \in CategorySet : ClearLock(t, cat)
    \/ \E t \in Tasks : ClearBody(t)
    \/ \E t \in Tasks, cat \in CategorySet, needle \in Needles : LookUpLock(t, cat, needle)
    \/ \E t \in Tasks : LookUpBody(t)
    \/ \E t \in Tasks, needle \in Needles : LookUpIdentifiers(t, needle)
    \/ \E t \in Tasks, cat \in CategorySet : GetNbLock(t, cat)
    \/ \E t \in Tasks : GetNbBody(t)
    \/ \E t \in Tasks : SaveLock(t)
    \/ \E t \in Tasks : SaveSkip(t)
    \/ \E t \in Tasks : SaveTempFile(t)
    \/ \E t \in Tasks : SaveEncode(t)
    \/ \E t \in Tasks : SaveRename(t)
    \/ \E t \in Tasks : Unlock(t)
    \/ \E t \in Tasks : LookUpIdentifiersReturn(t)
    \/ Crash

Spec == Init /\ [][Next]_vars

\* N goroutines that each insert one server, every one its own identifier.
InsertDistinct(t, identifier, name) ==
    /\ \A u \in Tasks \ {t} : local[u].identifier /= identifier
    /\ InsertLock(t, "Servers", identifier, name)

NextInsert ==
    \/ \E t \in Tasks, identifier \in Identifiers, name \in Names :
           InsertDistinct(t, identifier, name)
    \/ \E t \in Tasks : InsertBody(t)
    \/ \E t \in Tasks : UnlockOnce(t)

SpecInsert == Init /\ [][NextInsert]_vars

\* ------------------------------------------------- one goroutine, from start
\* A process that starts in some environment, finds some file at the cache
\* path, constructs its cache and then uses it from one goroutine.
Environments ==
    {[home |-> "/home/u", userprofile |-> "C:/u"],
     [home |-> "", userprofile |-> "C:/u"],
     [home |-> "", userprofile |-> ""]}

\* The files a starting process may find at the cache path.
LoadFiles ==
    InitialFiles \cup {PartialFile, EmptyFile, UnreadableFile, NoAccessFile}

InitSeq ==
    /\ procs = NoProcs
    /\ rmi = NoRmi
    /\ \E env \in Environments :
           main = [home |-> env.home, userprofile |-> env.userprofile,
                   pc |-> "start", err |-> "nil"]
    /\ disk \in LoadFiles
    /\ c = NewCache(EmptyMap, EmptyMap, EmptyMap, EmptyMap)
    /\ loaded = Collections(c)
    /\ tmp = [t \in Tasks |-> NoFile]
    /\ pc = [t \in Tasks |-> "idle"]
    /\ local = [t \in Tasks |-> NoLocal]
    /\ nops = 0
    /\ crashed = FALSE
    /\ before = [t \in Tasks |-> NoBefore]
    /\ seen = [t \in Tasks |-> {}]

\* cache, err := NewScalewayCache(): the process has a cache unless the
\* pointer returned is nil.
Load ==
    /\ main.pc = "start"
    /\ LET r == NewScalewayCache(main.home, main.userprofile, disk)
       IN /\ main' = [main EXCEPT !.pc = IF r.cache = NilCache THEN "failed" ELSE "loaded",
                                  !.err = r.err]
          /\ c' = IF r.cache = NilCache THEN c ELSE r.cache
          /\ loaded' = Collections(c')
    /\ UNCHANGED <<rmi, procs, disk, tmp, pc, local, nops, crashed, before, seen>>

\* The goroutine starts at most MaxSeqOps calls.
SeqTurn == pc[1] = "idle" => nops < MaxSeqOps

NextSeq ==
    \/ Load
    \/ \E cat \in CategorySet, identifier \in Identifiers, name \in Names :
           SeqTurn /\ InsertLock(1, cat, identifier, name)
    \/ InsertBody(1)
    \/ \E cat \in CategorySet, identifier \in Identifiers :
           SeqTurn /\ RemoveLock(1, cat, identifier)
    \/ RemoveBody(1)
    \/ \E cat \in CategorySet : SeqTurn /\ ClearLock(1, cat)
    \/ ClearBody(1)
    \/ \E cat \in CategorySet, needle \in Needles :
           SeqTurn /\ LookUpLock(1, cat, needle)
    \/ LookUpBody(1)
    \/ \E needle \in Needles : SeqTurn /\ LookUpIdentifiers(1, needle)
    \/ LookUpIdentifiersReturn(1)
    \/ \E cat \in CategorySet : SeqTurn /\ GetNbLock(1, cat)
    \/ GetNbBody(1)
    \/ SeqTurn /\ SaveLock(1)
    \/ SaveSkip(1)
    \/ SaveTempFile(1)
    \/ SaveEncode(1)
    \/ SaveRename(1)
    \/ Unlock(1)

SpecSeq == InitSeq /\ [][NextSeq]_vars

\* ------------------------------------------------------ lookups by a needle
\* One goroutine that looks needles up in a cache with names and needles
\* that use the separators, a leading "user/", a regexp metacharacter, a
\* newline and both cases of a letter.
UserPrefix == <<"u", "s", "e", "r", "/">>

LookUpNeedles ==
    {<<"a">>,
     <<"a", "-", "b">>,
     <<"a", ".", "b">>,
     <<"(">>,
     <<"b", "s">>,
     UserPrefix \o <<"a">>,
     UserPrefix \o <<"(">>,
     UserPrefix \o UserPrefix \o <<"a">>}

\* The entries of the servers, images and snapshots the process finds.
LookUpEntries ==
    (<<"a", "1">> :> <<"A", "x", "B">>)
    @@ (<<"b", "2">> :> UserPrefix \o <<"a">>)
    @@ (<<"d">> :> <<"a", "\n", "b">>)

LookUpFiles ==
    {NoFile,
     JsonFile([images |-> <<LookUpEntries>>, snapshots |-> <<LookUpEntries>>,
               bootscripts |-> <<(<<"b", "s">> :> <<"n">>) @@ (<<"(">> :> <<"n">>)>>,
               servers |-> <<LookUpEntries>>])}

InitLookUp ==
    /\ procs = NoProcs
    /\ rmi = NoRmi
    /\ main = Loaded
    /\ disk \in LookUpFiles
    /\ c = NewScalewayCache(main.home, main.userprofile, disk).cache
    /\ loaded = Collections(c)
    /\ tmp = [t \in Tasks |-> NoFile]
    /\ pc = [t \in Tasks |-> "idle"]
    /\ local = [t \in Tasks |-> NoLocal]
    /\ nops = 0
    /\ crashed = FALSE
    /\ before = [t \in Tasks |-> NoBefore]
    /\ seen = [t \in Tasks |-> {}]

\* The goroutine starts at most MaxLookUpOps calls.
LookUpTurn == pc[1] = "idle" => nops < MaxLookUpOps

NextLookUp ==
    \/ \E cat \in CategorySet, identifier \in {<<"a">>, <<"(">>} :
           LookUpTurn /\ InsertLock(1, cat, identifier, <<"n">>)
    \/ InsertBody(1)
    \/ \E cat \in CategorySet, needle \in LookUpNeedles :
           LookUpTurn /\ LookUpLock(1, cat, needle)
    \/ LookUpBody(1)
    \/ \E needle \in LookUpNeedles : LookUpTurn /\ LookUpIdentifiers(1, needle)
    \/ LookUpIdentifiersReturn(1)
    \/ Unlock(1)

SpecLookUp == InitLookUp /\ [][NextLookUp]_vars

\* ------------------------------------------------------- fair scheduling
\* The goroutines of one process under a fair scheduler: a goroutine that
\* can take its next step takes it. The callers start at most MaxFairOps
\* calls, among them lookups of a needle that is no pattern; nobody kills
\* the process.
FairNeedles == {<<"a">>, <<"(">>}

\* Task t starts a call.
FairCall(t) ==
    /\ nops < MaxFairOps
    /\ pc[t] = "idle"
    /\ \/ \E identifier \in Identifiers : InsertLock(t, "Servers", identifier, <<"A">>)
       \/ \E identifier \in Identifiers : RemoveLock(t, "Servers", identifier)
       \/ ClearLock(t, "Servers")
       \/ \E cat \in CategorySet, needle \in FairNeedles : LookUpLock(t, cat, needle)
       \/ \E needle \in FairNeedles : LookUpIdentifiers(t, needle)
       \/ GetNbLock(t, "Servers")
       \/ SaveLock(t)

\* Task t goes on with the call it is in.
FairStep(t) ==
    \/ InsertBody(t)
    \/ RemoveBody(t)
    \/ ClearBody(t)
    \/ /\ pc[t] = "LookUpIdentifiers"
       /\ \E cat \in CategorySet, needle \in FairNeedles : LookUpLock(t, cat, needle)
    \/ LookUpBody(t)
    \/ LookUpIdentifiersReturn(t)
    \/ GetNbBody(t)
    \/ SaveSkip(t)
    \/ SaveTempFile(t)
    \/ SaveEncode(t)
    \/ SaveRename(t)
    \/ Unlock(t)

NextFair == \E t \in Tasks : FairCall(t) \/ FairStep(t)

SpecFair ==
    /\ Init
    /\ [][NextFair]_vars
    /\ \A t \in Tasks : WF_vars(FairStep(t))

\* ------------------------------------------- two processes, one cache file
\* Two processes, each with one goroutine: each constructs its own cache
\* from the file at the cache path, mutates it, and saves at its end. They
\* share nothing but the file. procs.first is the file they started with,
\* procs.last the process whose rename came last.
Procs == {1, 2}

InitTwo ==
    /\ disk \in InitialFiles
    /\ procs = [of |-> [p \in Procs |-> NoProc], first |-> disk, last |-> 0]
    /\ rmi = NoRmi
    /\ main = Loaded
    /\ c = NewScalewayCache(main.home, main.userprofile, disk).cache
    /\ loaded = Collections(c)
    /\ tmp = [t \in Tasks |-> NoFile]
    /\ pc = [t \in Tasks |-> "idle"]
    /\ local = [t \in Tasks |-> NoLocal]
    /\ nops = 0
    /\ crashed = FALSE
    /\ before = [t \in Tasks |-> NoBefore]
    /\ seen = [t \in Tasks |-> {}]

\* cache, err := NewScalewayCache() in process p.
ProcLoad(p) ==
    /\ procs.of[p].pc = "start"
    /\ LET r == NewScalewayCache(main.home, main.userprofile, disk)
       IN procs' = [procs EXCEPT
              !.of[p].pc = IF r.cache = NilCache THEN "failed" ELSE "ready",
              !.of[p].c = r.cache,
              !.of[p].err = r.err]
    /\ UNCHANGED <<rmi, main, c, disk, tmp, pc, local, nops, crashed, loaded, before, seen>>

\* Process p may make one more mutation.
ProcCanMutate(p) ==
    /\ procs.of[p].pc = "ready"
    /\ procs.of[p].nops < MaxProcOps

\* Insert<cat>(identifier, name) in process p, from Lock to Unlock.
ProcInsert(p, cat, identifier, name) ==
    /\ ProcCanMutate(p)
    /\ procs' = [procs EXCEPT
           !.of[p].c = Inserted(@, cat, identifier, name),
           !.of[p].nops = @ + 1]
    /\ UNCHANGED <<rmi, main, c, disk, tmp, pc, local, nops, crashed, loaded, before, seen>>

\* Remove<cat>(identifier) in process p, from Lock to Unlock.
ProcRemove(p, cat, identifier) ==
    /\ ProcCanMutate(p)
    /\ procs' = [procs EXCEPT
           !.of[p].c = Removed(@, cat, identifier),
           !.of[p].nops = @ + 1]
    /\ UNCHANGED <<rmi, main, c, disk, tmp, pc, local, nops, crashed, loaded, before, seen>>

\* Clear<cat>() in process p, from Lock to Unlock.
ProcClear(p, cat) ==
    /\ ProcCanMutate(p)
    /\ procs' = [procs EXCEPT
           !.of[p].c = Cleared(@, cat),
           !.of[p].nops = @ + 1]
    /\ UNCHANGED <<rmi, main, c, disk, tmp, pc, local, nops, crashed, loaded, before, seen>>

\* Save() in process p up to ioutil.TempFile: nothing to do if the cache
\* is not modified, else a new empty file or an error.
ProcSave(p) ==
    /\ procs.of[p].pc = "ready"
    /\ IF ~procs.of[p].c.Modified
       THEN procs' = [procs EXCEPT !.of[p].pc = "skipped"]
       ELSE \/ procs' = [procs EXCEPT !.of[p].pc = "Save_Encode",
                                      !.of[p].tmp = EmptyFile]
            \/ procs' = [procs EXCEPT !.of[p].pc = "failed",
                                      !.of[p].err = "TempFile"]
    /\ UNCHANGED <<rmi, main, c, disk, tmp, pc, local, nops, crashed, loaded, before, seen>>

\* encoder.Encode(*c) in process p.
ProcSaveEncode(p) ==
    /\ procs.of[p].pc = "Save_Encode"
    /\ \/ procs' = [procs EXCEPT !.of[p].pc = "Save_Rename",
                                 !.of[p].tmp = JsonFile(Encode(procs.of[p].c))]
       \/ procs' = [procs EXCEPT !.of[p].pc = "failed",
                                 !.of[p].tmp = PartialFile,
                                 !.of[p].err = "Encode"]
    /\ UNCHANGED <<rmi, main, c, disk, tmp, pc, local, nops, crashed, loaded, before, seen>>

\* os.Rename(file.Name(), c.Path) in process p.
ProcSaveRename(p) ==
    /\ procs.of[p].pc = "Save_Rename"
    /\ \/ /\ disk' = Renamed(disk, procs.of[p].tmp)
          /\ procs' = [procs EXCEPT !.of[p].pc = "renamed",
                                    !.of[p].tmp = NoFile,
                                    !.last = p]
       \/ /\ disk' = disk
          /\ procs' = [procs EXCEPT !.of[p].pc = "failed",
                                    !.of[p].err = "Rename"]
    /\ UNCHANGED <<rmi, main, c, tmp, pc, local, nops, crashed, loaded, before, seen>>

NextTwo ==
    \E p \in Procs :
        \/ ProcLoad(p)
        \/ \E cat \in {"Servers", "Images"}, identifier \in Identifiers, name \in Names :
               ProcInsert(p, cat, identifier, name)
        \/ \E cat \in {"Servers", "Images"}, identifier \in Identifiers :
               ProcRemove(p, cat, identifier)
        \/ \E cat \in {"Servers", "Images"} : ProcClear(p, cat)
        \/ ProcSave(p)
        \/ ProcSaveEncode(p)
        \/ ProcSaveRename(p)

SpecTwo == InitTwo /\ [][NextTwo]_vars

\* ---------------------------------------------------------- the rmi command
\* runRmi with its arguments and the -h flag parsed. Each step of the loop
\* resolves one argument to an image and asks the API to delete it.
MaxArgs == 3

RmiNeedles == {<<"a">>, <<"b">>}

RmiArgs == UNION {[1..n -> RmiNeedles] : n \in 0..MaxArgs}

\* cmd.GetImage: the image identifier an argument resolves to.
GetImage(needle) == <<"i", "d">> \o needle

\* cmd.API.DeleteImage: the error a deletion can return.
DeleteImageErrors == {"nil", "error"}

InitRmi ==
    /\ procs = NoProcs
    /\ \E args \in RmiArgs, help \in BOOLEAN :
           rmi = [NoRmi EXCEPT !.args = args, !.rmiHelp = help, !.pc = "start"]
    /\ main = Loaded
    /\ disk \in {NoFile}
    /\ c = NewScalewayCache(main.home, main.userprofile, disk).cache
    /\ loaded = Collections(c)
    /\ tmp = [t \in Tasks |-> NoFile]
    /\ pc = [t \in Tasks |-> "idle"]
    /\ local = [t \in Tasks |-> NoLocal]
    /\ nops = 0
    /\ crashed = FALSE
    /\ before = [t \in Tasks |-> NoBefore]
    /\ seen = [t \in Tasks |-> << >>]

\* The usage texts the command writes before the loop.
Usage(r) ==
    (IF r.rmiHelp THEN <<"usage">> ELSE << >>)
        \o (IF Len(r.args) < 1 THEN <<"short usage">> ELSE << >>)

\* The top of runRmi: the usage texts, and log.Fatalf without arguments.
RmiUsage ==
    /\ rmi.pc = "start"
    /\ rmi' = IF Len(rmi.args) = 0
                THEN [rmi EXCEPT !.usage = Usage(rmi), !.pc = "exited", !.status = "exit 1"]
                ELSE [rmi EXCEPT !.usage = Usage(rmi), !.pc = "loop"]
    /\ UNCHANGED <<procs, main, c, disk, tmp, pc, local, nops, crashed, loaded, before, seen>>

\* image := cmd.GetImage(needle) for the next argument.
RmiGetImage ==
    /\ rmi.pc = "loop"
    /\ rmi.i <= Len(rmi.args)
    /\ rmi' = [rmi EXCEPT !.image = GetImage(rmi.args[rmi.i]), !.pc = "delete"]
    /\ UNCHANGED <<procs, main, c, disk, tmp, pc, local, nops, crashed, loaded, before, seen>>

\* The rest of the loop body cut short: the loop is left at the first error.
DeletedBreak(r, err) ==
    [r EXCEPT !.attempts = Append(@, [needle |-> r.args[r.i], image |-> r.image, err |-> err]),
              !.hasError = @ \/ err /= "nil",
              !.stdout = IF err = "nil" THEN Append(@, r.args[r.i]) ELSE @,
              !.i = IF err = "nil" THEN @ + 1 ELSE Len(r.args) + 1,
              !.pc = "loop"]

\* The rest of the loop body once DeleteImage(image) returned err: an error
\* is logged and remembered, a success prints the argument; the loop goes on.
Deleted(r, err) ==
    [r EXCEPT !.attempts = Append(@, [needle |-> r.args[r.i], image |-> r.image, err |-> err]),
              !.hasError = @ \/ err /= "nil",
              !.stdout = IF err = "nil" THEN Append(@, r.args[r.i]) ELSE @,
              !.i = @ + 1,
              !.pc = "loop"]

RmiDeleteImage ==
    /\ rmi.pc = "delete"
    /\ \E err \in DeleteImageErrors : rmi' = Deleted(rmi, err)
    /\ UNCHANGED <<procs, main, c, disk, tmp, pc, local, nops, crashed, loaded, before, seen>>

\* After the loop: os.Exit(1) if a deletion failed, else runRmi returns.
RmiEnd ==
    /\ rmi.pc = "loop"
    /\ rmi.i > Len(rmi.args)
    /\ rmi' = IF rmi.hasError
                THEN [rmi EXCEPT !.pc = "exited", !.status = "exit 1"]
                ELSE [rmi EXCEPT !.pc = "returned", !.status = "returned"]
    /\ UNCHANGED <<procs, main, c, disk, tmp, pc, local, nops, crashed, loaded, before, seen>>

NextRmi ==
    \/ RmiUsage
    \/ RmiGetImage
    \/ RmiDeleteImage
    \/ RmiEnd

SpecRmi == InitRmi /\ [][NextRmi]_vars

\* ------------------------------------------------------------------ claims
\* Task t is inside a critical section: it holds c.Lock.
InCS(t) ==
    pc[t] \in {"Insert", "Remove", "Clear", "LookUp", "GetNb", "Save", "Save_Encode",
               "Save_Rename", "unlock"}

\* The pair task t inserted is stored.
Stored(t) ==
    /\ local[t].identifier \in DOMAIN c.Servers
    /\ c.Servers[local[t].identifier] = local[t].name

\* The pair task t inserted was already in the cache when it was loaded.
AlreadyLoaded(t) ==
    /\ local[t].identifier \in DOMAIN loaded["Servers"]
    /\ loaded["Servers"][local[t].identifier] = local[t].name

AllInsertsReturned == \A t \in Tasks : pc[t] = "done"

\* C1 as stated: once N concurrent InsertServer calls with distinct
\* identifiers have all returned, every pair is stored and Modified is set.
C1_Original ==
    AllInsertsReturned => (\A t \in Tasks : Stored(t)) /\ c.Modified

\* C1 amended: once N concurrent InsertServer calls with distinct identifiers
\* have all returned, every pair is stored, in every interleaving; Modified
\* is set exactly if one of the pairs was not already stored with that name.
C1_NoLostInsert ==
    AllInsertsReturned =>
        /\ \A t \in Tasks : Stored(t)
        /\ c.Modified <=> (\E t \in Tasks : ~AlreadyLoaded(t))

C1_Witness ==
    /\ AllInsertsReturned
    /\ \A t \in Tasks : ~AlreadyLoaded(t)
    /\ Cardinality({local[t].identifier : t \in Tasks}) = NTasks

\* C2: at most one call is inside its critical section, and the mutex is
\* held exactly while one is.
C2_MutualExclusion ==
    /\ \A t, u \in Tasks : InCS(t) /\ InCS(u) => t = u
    /\ c.Lock <=> (\E t \in Tasks : InCS(t))

C2_Witness ==
    \E t, u \in Tasks :
        /\ pc[t] = "Save_Rename"
        /\ pc[u] = "LookUpIdentifiers"
        /\ local[u].stage = 3

\* The identifiers of the entries of a LookUpIdentifiers result with cat's tag.
Part(result, cat) ==
    {result[i].Identifier : i \in {j \in 1..Len(result) : result[j].Type = TypeOf(cat)}}

\* result is what the four lookups return on the collections s.
IsAggregate(result, s, needle) ==
    /\ \A cat \in CategorySet : Part(result, cat) = LookUpSet(cat, s[cat], needle)
    /\ \A i, j \in 1..Len(result) : i < j => result[i].Type <= result[j].Type
    /\ \A i, j \in 1..Len(result) : result[i] = result[j] => i = j

\* C3 as stated: the result of LookUpIdentifiers is the aggregate of the four
\* lookups on one single state the cache had during the call.
C3_Original ==
    \A t \in Tasks :
        LookUpIdentifiersDone(t) =>
            \E s \in seen[t] : IsAggregate(local[t].result, s, local[t].needle)

\* C3 amended: LookUpIdentifiers is not serialized as a whole. Each of its
\* four lookups is serialized on its own: the part of the result with a
\* category's tag is that category's lookup on one state the cache had
\* during the call, and the four parts may come from different states.
C3_PerCategorySnapshot ==
    \A t \in Tasks :
        LookUpIdentifiersDone(t) =>
            /\ \A cat \in CategorySet :
                   \E s \in seen[t] :
                       Part(local[t].result, cat) = LookUpSet(cat, s[cat], local[t].needle)
            /\ \A i, j \in 1..Len(local[t].result) :
                   /\ i < j => local[t].result[i].Type <= local[t].result[j].Type
                   /\ local[t].result[i] = local[t].result[j] => i = j

C3_Witness ==
    \E t \in Tasks :
        /\ LookUpIdentifiersDone(t)
        /\ Cardinality(seen[t]) = 3
        /\ \A s \in seen[t] : ~IsAggregate(local[t].result, s, local[t].needle)

\* Task t's Save is about to return (the lock is still held).
SaveReturns(t) == pc[t] = "unlock" /\ local[t].op = "Save"

\* C4: while a Save runs, and after a kill at any step of it, the cache file
\* is never a part of a document; up to the rename it is the file Save found,
\* after the rename it is the complete encoding of the cache.
C4_FileIntact ==
    /\ disk.kind \in {"absent", "json"}
    /\ \A t \in Tasks :
           InSave(t) =>
               \/ disk = before[t].disk
               \/ /\ SaveReturns(t)
                  /\ local[t].err = "nil"
                  /\ disk = JsonFile(Encode(c))

C4_Witness ==
    /\ crashed
    /\ \E t \in Tasks :
           /\ pc[t] = "Save_Encode"
           /\ tmp[t] = PartialFile
           /\ disk.kind = "json"
           /\ disk = before[t].disk

\* C5: a Save that returns an error leaves the cache file, the collections
\* and Modified as it found them, and its return releases the lock.
C5_FailedSaveState ==
    \A t \in Tasks :
        SaveReturns(t) /\ local[t].err /= "nil" =>
            /\ disk = before[t].disk
            /\ Collections(c) = before[t].coll
            /\ c.Modified = before[t].Modified

C5_FailedSaveStep ==
    \A t \in Tasks :
        SaveReturns(t) /\ local[t].err /= "nil" /\ pc'[t] /= pc[t] =>
            /\ ~c'.Lock
            /\ disk' = disk
            /\ Collections(c') = Collections(c)
            /\ c'.Modified = c.Modified

\* C5: always, a Save about to return an error has left the cache file, the
\* collections and Modified as it found them, and its return step frees the
\* lock without touching them.
C5_FailedSave == [](C5_FailedSaveState) /\ [][C5_FailedSaveStep]_vars

C5_Witness ==
    \E t \in Tasks :
        /\ SaveReturns(t)
        /\ local[t].err = "Rename"
        /\ disk.kind = "json"
        /\ disk /= tmp[t]

\* Every identifier and name of the cache is valid UTF-8.
ValidUTF8(cache) ==
    \A cat \in CategorySet :
        \A identifier \in DOMAIN cache[cat] :
            /\ EncodeString(identifier) = identifier
            /\ EncodeString(cache[cat][identifier]) = cache[cat][identifier]

\* What a fresh load of the cache file returns.
Reloaded == Collections(NewScalewayCache(main.home, main.userprofile, disk).cache)

\* C6 as stated: after a successful Save a fresh load yields the four
\* collections as they are in memory.
C6_Original ==
    \A t \in Tasks :
        SaveReturns(t) /\ local[t].err = "nil" => Reloaded = Collections(c)

\* C6 amended: after a successful Save (also one that skipped the write) a
\* fresh load yields the four collections as they are in memory, provided
\* every identifier and name is valid UTF-8; an invalid byte comes back as
\* the replacement character.
C6_RoundTrip ==
    \A t \in Tasks :
        SaveReturns(t) /\ local[t].err = "nil" =>
            /\ NewScalewayCache(main.home, main.userprofile, disk).err = "nil"
            /\ ValidUTF8(c) => Reloaded = Collections(c)
            /\ Reloaded = [cat \in CategorySet |-> EncodeMap(c[cat])]

C6_Witness ==
    \E t \in Tasks :
        /\ SaveReturns(t)
        /\ local[t].err = "nil"
        /\ before[t].Modified
        /\ ValidUTF8(c)
        /\ Collections(c) /= loaded
        /\ c.Bootscripts /= EmptyMap

\* C7: a Save that finds Modified unset returns nil, creates no temporary
\* file and leaves the cache file alone; the cache file and the temporary
\* files change only in a Save that found Modified set.
C7_CleanSaveState ==
    \A t \in Tasks :
        InSave(t) /\ ~before[t].Modified =>
            /\ pc[t] \in {"Save", "unlock"}
            /\ local[t].err = "nil"
            /\ tmp[t] = NoFile
            /\ disk = before[t].disk

C7_WriteStep ==
    (disk' /= disk \/ \E t \in Tasks : tmp'[t] \notin {tmp[t], NoFile}) =>
        \E t \in Tasks : InSave(t) /\ before[t].Modified

\* C7: always, a Save that found Modified unset does no I/O and returns nil,
\* and every step that writes the cache file or a temporary file belongs to
\* a Save that found Modified set.
C7_CleanSave == [](C7_CleanSaveState) /\ [][C7_WriteStep]_vars

C7_Witness ==
    \E t \in Tasks :
        /\ SaveReturns(t)
        /\ ~before[t].Modified
        /\ disk = NoFile
        /\ nops = 1

\* C8: no step takes Modified from set to unset; a Save that found it set
\* and returns nil has replaced the cache file and leaves the flag set, so
\* the next Save writes again.
C8_ModifiedStays ==
    \A t \in Tasks :
        SaveReturns(t) /\ local[t].err = "nil" /\ before[t].Modified =>
            /\ c.Modified
            /\ disk = JsonFile(Encode(c))

\* C8: Modified, once set, stays set in every step, also across a
\* successful Save, which has then rewritten the cache file.
C8_NeverReset == [](C8_ModifiedStays) /\ [][c.Modified => c'.Modified]_vars

\* A Save rewrote a cache file that an earlier Save of the same content wrote.
C8_Witness ==
    \E t \in Tasks :
        /\ SaveReturns(t)
        /\ local[t].err = "nil"
        /\ before[t].Modified
        /\ tmp[t] = NoFile
        /\ before[t].disk = JsonFile(Encode(c))
        /\ Collections(c) /= loaded
        /\ ValidUTF8(c)

\* C9: whenever a collection differs from what was loaded, Modified is set.
C9_ChangedIsModified ==
    Collections(c) /= loaded => c.Modified

C9_Witness ==
    /\ Collections(c) /= loaded
    /\ \E t \in Tasks : pc[t] = "Save"

\* C10: the body of Insert<cat>(identifier, name) leaves identifier mapped
\* to name, every other entry and the other collections as they were, and
\* sets Modified exactly if identifier was absent or had another name; with
\* the pair already stored the cache does not change.
C10_InsertStep ==
    \A t \in Tasks :
        pc[t] = "Insert" /\ pc'[t] = "unlock" =>
            LET cat == local[t].cat
                identifier == local[t].identifier
                name == local[t].name
                stored == identifier \in DOMAIN c[cat] /\ c[cat][identifier] = name
            IN /\ DOMAIN c'[cat] = DOMAIN c[cat] \cup {identifier}
               /\ c'[cat][identifier] = name
               /\ \A k \in DOMAIN c[cat] \ {identifier} : c'[cat][k] = c[cat][k]
               /\ \A other \in CategorySet \ {cat} : c'[other] = c[other]
               /\ c'.Modified <=> (c.Modified \/ ~stored)
               /\ stored => c' = c

\* C10: every step that runs the body of an Insert has that effect.
C10_Insert == [][C10_InsertStep]_vars

\* An insert of a stored pair has run on a cache that is not modified.
C10_Witness ==
    \E t \in Tasks :
        /\ pc[t] = "unlock"
        /\ local[t].op = "Insert"
        /\ ~c.Modified
        /\ nops = 2

\* -------------------------------------------------------------------- C11
\* The body of Remove<cat>(identifier) leaves the category without the
\* identifier and with every other entry as it was, leaves the other three
\* categories as they were, and sets Modified.
C11_RemoveStep ==
    \A t \in Tasks :
        pc[t] = "Remove" /\ pc'[t] = "unlock" =>
            LET cat == local[t].cat
                identifier == local[t].identifier
            IN /\ identifier \notin DOMAIN c'[cat]
               /\ DOMAIN c'[cat] = DOMAIN c[cat] \ {identifier}
               /\ \A k \in DOMAIN c'[cat] : c'[cat][k] = c[cat][k]
               /\ \A other \in CategorySet \ {cat} : c'[other] = c[other]
               /\ c'.Modified

\* C11: for each category, Remove(identifier) leaves the identifier absent
\* from that category, every other entry and the other three categories
\* unchanged, and sets Modified whether or not the identifier was present.
C11_Remove == [][C11_RemoveStep]_vars

\* A first call that removed an identifier the cache did not hold: the
\* collections are the loaded ones and Modified is set.
C11_Witness ==
    /\ pc[1] = "unlock"
    /\ local[1].op = "Remove"
    /\ nops = 1
    /\ local[1].identifier \notin DOMAIN loaded[local[1].cat]
    /\ loaded["Servers"] /= EmptyMap
    /\ Collections(c) = loaded
    /\ c.Modified

\* -------------------------------------------------------------------- C12
\* The body of Clear<cat>() leaves the category an empty map that is not
\* nil, leaves the other three collections as they were, and sets Modified.
C12_ClearStep ==
    \A t \in Tasks :
        pc[t] = "Clear" /\ pc'[t] = "unlock" =>
            LET cat == local[t].cat
            IN /\ c'[cat] = EmptyMap
               /\ cat \notin c'.Nil
               /\ \A other \in CategorySet \ {cat} :
                      /\ c'[other] = c[other]
                      /\ (other \in c'.Nil) = (other \in c.Nil)
               /\ c'.Modified

\* C12: for each category, Clear leaves that category's collection empty
\* and non-nil, leaves the other three collections exactly as they were, and
\* sets Modified whether or not the category was empty before; ClearSnapshots
\* changes only Snapshots.
C12_Clear == [][C12_ClearStep]_vars

\* A first call that cleared the snapshots, which were empty already, of a
\* cache that holds servers: they are still there and Modified is set.
C12_Witness ==
    /\ pc[1] = "unlock"
    /\ local[1].op = "Clear"
    /\ local[1].cat = "Snapshots"
    /\ nops = 1
    /\ loaded["Snapshots"] = EmptyMap
    /\ loaded["Servers"] /= EmptyMap
    /\ Collections(c) = loaded
    /\ c.Modified

\* -------------------------------------------------------------------- C13
\* The elements of a sequence.
Range(s) == {s[i] : i \in 1..Len(s)}

\* Task t is at the end of a call of LookUp<cat>, before the deferred Unlock.
LookUpReturns(t) ==
    /\ pc[t] = "unlock"
    /\ local[t].op = "LookUp"

\* C13: after InsertServer(identifier, name), with no RemoveServer of the
\* identifier and no ClearServers since, LookUpServers(identifier) returns
\* a sequence that contains the identifier, whatever the identifier is.
\* The servers hold the identifier exactly when it was stored and not taken
\* out since.
C13_Original ==
    \A t \in Tasks :
        /\ LookUpReturns(t)
        /\ local[t].cat = "Servers"
        /\ local[t].needle \in DOMAIN c.Servers
        => /\ local[t].err = "nil"
           /\ local[t].needle \in Range(local[t].res)

\* -------------------------------------------------------------------- C14
\* How often x occurs in the sequence s.
Count(s, x) == Cardinality({i \in 1..Len(s) : s[i] = x})

\* C14: each single-category lookup returns exactly the identifiers of that
\* category's entries whose identifier has the effective needle as a
\* literal, case-sensitive prefix or whose name satisfies the pattern: each
\* of these once, and no identifier that does not match or that is not of
\* the category.
C14_Original ==
    \A t \in Tasks :
        LookUpReturns(t) =>
            LET m == c[local[t].cat]
                n == IF local[t].cat \in {"Images", "Snapshots"}
                     THEN StripUser(local[t].needle)
                     ELSE local[t].needle
                matches(identifier) ==
                    \/ HasPrefix(identifier, n)
                    \/ MatchString(NameRegex(n), m[identifier])
            IN /\ Range(local[t].res) \subseteq DOMAIN m
               /\ \A identifier \in DOMAIN m :
                      Count(local[t].res, identifier) =
                          IF matches(identifier) THEN 1 ELSE 0

\* -------------------------------------------------------------------- C15
\* The maximal runs of characters other than "_" and "-" of a needle.
RECURSIVE Runs(_)
Runs(s) ==
    IF s = << >> THEN << >>
    ELSE IF Head(s) \in {"_", "-"} THEN Runs(Tail(s))
    ELSE LET k == CHOOSE i \in 1..Len(s) :
                      /\ \A j \in 1..i : s[j] \notin {"_", "-"}
                      /\ i = Len(s) \/ s[i + 1] \in {"_", "-"}
         IN <<SubSeq(s, 1, k)>> \o Runs(SubSeq(s, k + 1, Len(s)))

\* The runs occur in name from position from on, in their order, one after
\* the end of the other, each as a literal substring up to case.
RECURSIVE RunsOccur(_, _, _)
RunsOccur(runs, name, from) ==
    IF runs = << >> THEN TRUE
    ELSE LET r == Head(runs)
         IN \E p \in from..(Len(name) - Len(r) + 1) :
                /\ \A i \in 1..Len(r) : Fold(name[p + i - 1]) = Fold(r[i])
                /\ RunsOccur(Tail(runs), name, p + Len(r))

\* C15: a name satisfies the pattern of a needle exactly when, up to case,
\* the maximal runs of non-separator characters of the needle occur in the
\* name as literal substrings in their order, with any text between them;
\* every character of the needle other than "_" and "-" is matched
\* literally. The lookups that return tell which names satisfy the pattern:
\* those of the returned identifiers that the prefix test does not select.
C15_Original ==
    \A t \in Tasks :
        LookUpReturns(t) /\ local[t].err = "nil" =>
            LET m == c[local[t].cat]
                n == EffectiveNeedle(local[t].cat, local[t].needle)
            IN \A identifier \in DOMAIN m :
                   ~HasPrefix(identifier, n) =>
                       (identifier \in Range(local[t].res)
                            <=> RunsOccur(Runs(n), m[identifier], 1))

\* -------------------------------------------------------------------- C16
\* The identifiers of m that the needle n, taken as it is, selects.
Matching(m, n) ==
    {identifier \in DOMAIN m :
         HasPrefix(identifier, n) \/ MatchString(NameRegex(n), m[identifier])}

\* The needle without its first five characters.
AfterUser(needle) == SubSeq(needle, Len(UserPrefix) + 1, Len(needle))

\* For every needle n, LookUpImages("user/" + n) returns the set of
\* identifiers that LookUpImages(n) returns, and so for the snapshots; the
\* lookups of servers and bootscripts match on the needle as given.
C16_Original ==
    \A t \in Tasks :
        LookUpReturns(t) /\ local[t].err = "nil" =>
            LET cat == local[t].cat
                needle == local[t].needle
            IN IF cat \in {"Images", "Snapshots"}
               THEN HasPrefix(needle, UserPrefix) =>
                        Range(local[t].res) = LookUpSet(cat, c[cat], AfterUser(needle))
               ELSE Range(local[t].res) = Matching(c[cat], needle)

\* C16: LookUpImages("user/" + n) and LookUpSnapshots("user/" + n) remove
\* exactly one leading "user/" and select by n as it is then, panicking
\* exactly when n is no pattern; this is what the lookup of n does whenever
\* n does not begin with "user/" itself. LookUpServers and
\* LookUpBootscripts select by the needle as given.
C16_StripOnce ==
    \A t \in Tasks :
        LookUpReturns(t) =>
            LET cat == local[t].cat
                needle == local[t].needle
                n == IF cat \in {"Images", "Snapshots"} /\ HasPrefix(needle, UserPrefix)
                     THEN AfterUser(needle)
                     ELSE needle
            IN /\ (local[t].err = "nil") = Compiles(NameRegex(n))
               /\ local[t].err = "nil" =>
                      /\ Range(local[t].res) = Matching(c[cat], n)
                      /\ ~HasPrefix(n, UserPrefix) =>
                             Range(local[t].res) = LookUpSet(cat, c[cat], n)

\* LookUpImages("user/a") has selected by "a": the identifier with that
\* prefix and the two whose names contain the letter.
C16_Witness ==
    /\ LookUpReturns(1)
    /\ local[1].cat = "Images"
    /\ local[1].needle = UserPrefix \o <<"a">>
    /\ Range(local[1].res) = {<<"a", "1">>, <<"b", "2">>, <<"d">>}

\* -------------------------------------------------------------------- C17
\* The call of LookUpIdentifiers in task t is over: it has its result, or a
\* panic has ended it.
LookUpIdentifiersEnded(t) ==
    /\ local[t].op = "LookUpIdentifiers"
    /\ LookUpIdentifiersDone(t) \/ pc[t] = "panic"

\* C17: every pair that LookUpIdentifiers(needle) returns is an identifier
\* that the lookup of its category selects for the needle, with the tag of
\* that category; and for an identifier that only the bootscripts hold,
\* used as the needle, the result has exactly one entry for it, tagged
\* Bootscript. (One goroutine: the cache is the same throughout the call.)
C17_Original ==
    \A t \in Tasks :
        LookUpIdentifiersEnded(t) =>
            LET needle == local[t].needle
                result == local[t].result
                entries == {i \in 1..Len(result) : result[i].Identifier = needle}
            IN /\ \A i \in 1..Len(result) :
                      \E cat \in CategorySet :
                          /\ result[i].Type = TypeOf(cat)
                          /\ result[i].Identifier \in LookUpSet(cat, c[cat], needle)
               /\ (/\ needle \in DOMAIN c.Bootscripts
                   /\ \A cat \in CategorySet \ {"Bootscripts"} : needle \notin DOMAIN c[cat])
                  => /\ Cardinality(entries) = 1
                     /\ \A i \in entries : result[i].Type = IdentifierBootscript

\* -------------------------------------------------------------------- C18
\* C18: no lookup has an error path: for every needle and every cache state
\* each single-category lookup and LookUpIdentifiers ends normally with a
\* sequence, which is empty when no entry matches.
C18_Original ==
    \A t \in Tasks :
        /\ pc[t] /= "panic"
        /\ LookUpReturns(t) =>
               /\ local[t].err = "nil"
               /\ LookUpSet(local[t].cat, c[local[t].cat], local[t].needle) = {}
                  => local[t].res = << >>
        /\ LookUpIdentifiersDone(t) /\ seen[t] = {Collections(c)} =>
               \/ local[t].result = << >>
               \/ \E cat \in CategorySet :
                      LookUpSet(cat, c[cat], local[t].needle) /= {}

\* -------------------------------------------------------------------- C19
\* NewScalewayCache with no file at the cache path ends without an error,
\* with four empty maps, the cache path as Path and Modified unset, and
\* there is still no file.
C19_LoadStep ==
    main.pc = "start" /\ main'.pc /= "start" /\ disk = NoFile =>
        /\ main'.pc = "loaded"
        /\ main'.err = "nil"
        /\ \A cat \in CategorySet : c'[cat] = EmptyMap /\ cat \notin c'.Nil
        /\ c'.Path = <<IF main.home /= "" THEN main.home
                       ELSE IF main.userprofile /= "" THEN main.userprofile
                       ELSE "/tmp",
                       ".scw-cache.db">>
        /\ ~c'.Modified
        /\ disk' = NoFile

\* C19: loading when no file exists at the resolved cache path is not an
\* error: it returns a cache whose four collections are empty maps, whose
\* path is the resolved path and whose Modified flag is unset, and it does
\* not create the file.
C19_AbsentLoad == [][C19_LoadStep]_vars

\* The cache of a process without $HOME that found no file under
\* %USERPROFILE%, before its first call.
C19_Witness ==
    /\ main.pc = "loaded"
    /\ main.home = ""
    /\ main.userprofile = "C:/u"
    /\ nops = 0
    /\ disk = NoFile
    /\ c.Path = <<"C:/u", ".scw-cache.db">>
    /\ \A cat \in CategorySet : c[cat] = EmptyMap

\* -------------------------------------------------------------------- C20
\* C20: once NewScalewayCache has returned a cache, and after any sequence
\* of Insert, Remove, Clear, Save and lookup calls, none of the four
\* collections is nil; a collection that is null or absent in the decoded
\* file is an empty map in the cache that NewScalewayCache returns, while
\* the collections the file has keep their decoded content.
C20_NonNil ==
    main.pc = "loaded" =>
        /\ c.Nil = {}
        /\ nops = 0 /\ disk.kind = "json" =>
               \A cat \in CategorySet :
                   c[cat] = IF DocField(disk.doc, cat) = Null
                            THEN EmptyMap
                            ELSE DocField(disk.doc, cat)[1]

\* The cache loaded from a file that has servers and no images field,
\* before the first call: the servers are the file's, the images an empty
\* map that is not nil.
C20_Witness ==
    /\ main.pc = "loaded"
    /\ nops = 0
    /\ disk.kind = "json"
    /\ disk.doc.images = Null
    /\ disk.doc.servers /= Null
    /\ c.Servers = disk.doc.servers[1]
    /\ c.Servers /= EmptyMap
    /\ c.Images = EmptyMap
    /\ "Images" \notin c.Nil

\* -------------------------------------------------------------------- C21
\* NewScalewayCache on a file that exists and cannot be stat'ed, read or
\* decoded returns the error of that step and no cache, and leaves the file
\* alone; a cache is returned only without an error, for a missing file or
\* a decoded one.
C21_LoadStep ==
    main.pc = "start" /\ main'.pc /= "start" =>
        /\ disk.kind \notin {"absent", "json"} =>
               /\ main'.pc = "failed"
               /\ main'.err = (CASE disk.kind = "noaccess" -> "stat"
                                 [] disk.kind = "unreadable" -> "read"
                                 [] OTHER -> "decode")
               /\ c' = c
               /\ disk' = disk
        /\ main'.pc = "loaded" =>
               /\ main'.err = "nil"
               /\ disk.kind \in {"absent", "json"}
        /\ main'.pc = "loaded" /\ (\A cat \in CategorySet : c'[cat] = EmptyMap) =>
               \/ disk.kind = "absent"
               \/ \A cat \in CategorySet : Repair(DocField(disk.doc, cat)) = EmptyMap

\* C21: if the cache file exists but cannot be stat'ed or read, or its
\* content cannot be decoded, the load returns that error and no cache
\* object; of the failures to get at the file only "does not exist" yields
\* an empty cache.
C21_LoadError == [][C21_LoadStep]_vars

\* A process whose load failed on a file that ends in the middle of the
\* document: it has the decode error and no cache.
C21_Witness ==
    /\ main.pc = "failed"
    /\ main.err = "decode"
    /\ disk = PartialFile
    /\ nops = 0

\* -------------------------------------------------------------------- C22
\* C22: with two processes that load the same cache file, mutate their own
\* caches and save, the file is at every moment the file they started with
\* or the encoding of the whole cache of the process that renamed last, so
\* after both Saves it holds the collections of the last saver only: what
\* only the earlier saver wrote is gone, and the file is never a mixture.
C22_LastSaveWins ==
    /\ procs.last = 0 => disk = procs.first
    /\ procs.last /= 0 => disk = JsonFile(Encode(procs.of[procs.last].c))
    /\ (\A p \in Procs : procs.of[p].pc = "renamed") =>
           \A cat \in CategorySet :
               DOMAIN DocField(disk.doc, cat)[1] =
                   {EncodeString(k) : k \in DOMAIN procs.of[procs.last].c[cat]}

\* Both processes started without a file and have saved, process 2 last:
\* the server that only process 1 wrote is not in the file, the image of
\* process 2 is.
C22_Witness ==
    /\ procs.first = NoFile
    /\ \A p \in Procs : procs.of[p].pc = "renamed"
    /\ procs.last = 2
    /\ <<"a">> \in DOMAIN procs.of[1].c.Servers
    /\ procs.of[2].c.Servers = EmptyMap
    /\ <<"a">> \in DOMAIN procs.of[2].c.Images
    /\ disk.doc.servers = <<EmptyMap>>
    /\ <<"a">> \in DOMAIN disk.doc.images[1]

\* -------------------------------------------------------------------- C23
\* The categories whose own lookup selects the identifier for the needle.
MatchingCategories(identifier, needle) ==
    {cat \in CategorySet : identifier \in LookUpSet(cat, c[cat], needle)}

\* C23: the result of LookUpIdentifiers is the four category results one
\* after the other, servers, images, snapshots, bootscripts, nothing taken
\* out: an identifier stored and matching in k of the collections is there
\* k times, once with the tag of each of them, and the length is the sum of
\* the lengths of the four results. (One goroutine: the cache is the same
\* throughout the call.)
C23_Original ==
    \A t \in Tasks :
        LookUpIdentifiersEnded(t) =>
            LET needle == local[t].needle
                result == local[t].result
                stored == UNION {DOMAIN c[cat] : cat \in CategorySet}
                tagged(identifier, cat) ==
                    {i \in 1..Len(result) :
                         /\ result[i].Identifier = identifier
                         /\ result[i].Type = TypeOf(cat)}
            IN /\ \A i, j \in 1..Len(result) :
                      i < j => result[i].Type <= result[j].Type
               /\ \A identifier \in stored, cat \in CategorySet :
                      Cardinality(tagged(identifier, cat)) =
                          IF cat \in MatchingCategories(identifier, needle) THEN 1 ELSE 0
               /\ \A i \in 1..Len(result) : result[i].Identifier \in stored
               /\ Len(result) =
                      Cardinality({<<identifier, cat>> \in stored \X CategorySet :
                                       cat \in MatchingCategories(identifier, needle)})

\* -------------------------------------------------------------------- C24
\* The calls that only read.
ReadOps == {"LookUp", "LookUpIdentifiers", "GetNb"}

\* A step of a call that only reads leaves the collections, Modified and
\* the cache file as they are.
C24_ReadStep ==
    \A t \in Tasks :
        /\ local[t].op \in ReadOps \/ local'[t].op \in ReadOps
        /\ pc'[t] /= pc[t] \/ local'[t] /= local[t]
        => /\ Collections(c') = Collections(c)
           /\ c'.Nil = c.Nil
           /\ c'.Modified = c.Modified
           /\ disk' = disk

\* GetNb<cat> returns the number of identifiers the category holds.
C24_GetNbState ==
    \A t \in Tasks :
        pc[t] = "unlock" /\ local[t].op = "GetNb" =>
            local[t].nb = Cardinality(DOMAIN c[local[t].cat])

\* C24: lookups are read-only: every single-category lookup,
\* LookUpIdentifiers and every GetNb<cat> leaves the four collections, the
\* Modified flag and the cache file unchanged, and GetNb<cat> returns the
\* number of identifiers currently in the category.
C24_ReadOnly == []C24_GetNbState /\ [][C24_ReadStep]_vars

\* The second of two calls, GetNbServers, has counted the two servers of
\* the loaded cache, which is still unmodified.
C24_Witness ==
    /\ pc[1] = "unlock"
    /\ local[1].op = "GetNb"
    /\ local[1].cat = "Servers"
    /\ local[1].nb = 2
    /\ nops = 2
    /\ Collections(c) = loaded
    /\ ~c.Modified
    /\ disk.kind = "json"

\* -------------------------------------------------------------------- C25
\* The lock is held only by a call that is between its Lock and its Unlock;
\* a goroutine between two lookups of LookUpIdentifiers is no such call.
C25_LockHeld == c.Lock => \E t \in Tasks : InCS(t)

\* C25: the lock is deadlock-free and always released: under fair
\* scheduling every started lookup, Insert, Remove, Clear, Save and
\* LookUpIdentifiers call eventually returns, the lock it took free again,
\* on success and on every error path of Save; and LookUpIdentifiers does
\* not hold the lock while it calls the four lookups that take it.
C25_Original ==
    /\ []C25_LockHeld
    /\ \A t \in Tasks : (pc[t] /= "idle") ~> (pc[t] = "idle")

\* The rmi command has ended: it exited or runRmi returned.
RmiEnded == rmi.pc \in {"exited", "returned"}

\* The arguments of the attempts whose deletion succeeded, in order.
RECURSIVE Succeeded(_)
Succeeded(attempts) ==
    IF attempts = << >> THEN << >>
    ELSE IF Head(attempts).err = "nil"
        THEN <<Head(attempts).needle>> \o Succeeded(Tail(attempts))
        ELSE Succeeded(Tail(attempts))

====
